---- MODULE Spec2Model ----
(***************************************************************************)
(* Student record system: the StudentList roster (student.c), its          *)
(* persistence codec (file_io.c) and the text helpers (utils.c).           *)
(*                                                                         *)
(* A C string is a sequence of one-character strings.  A Student is a      *)
(* record [roll, name, marks]; the roster's items array is the sequence of *)
(* the first `size` Students, so list->size is Len(items).                 *)
(***************************************************************************)
EXTENDS Integers, Sequences, FiniteSets, TLC

VARIABLES
    items,          \* list->items[0 .. size-1]
    capacity,       \* list->capacity
    modified,       \* list->modified
    last_filename,  \* list->last_filename
    fs,             \* the file system: path -> [exists, data]
    call,           \* the last call made: operation, arguments, return value
    saved,          \* what save_to_file last wrote to FILENAME, while the file still holds it
    ub              \* the process has run into undefined behaviour

vars == <<items, capacity, modified, last_filename, fs, call, saved, ub>>

(***************************************************************************)
(* Program constants (student.h).                                          *)
(***************************************************************************)
INITIAL_CAPACITY == 8
PASS_THRESHOLD == 40
MAX_NAME_LENGTH == 100
MAX_LINE_LENGTH == 1024
FILENAME == "students.txt"

(***************************************************************************)
(* Bounds of the model.                                                    *)
(***************************************************************************)
MaxSize == 2        \* add_student does not grow the roster beyond this
MaxIndex == 2       \* largest index passed to remove/modify (0-based)
MaxGiven == 3       \* largest roster SpecSort and SpecStats start from
MaxLines == 3       \* most lines in a data file SpecLoad starts from
MaxRecords == 9     \* SpecGrow and SpecReset do not grow the roster beyond this

(***************************************************************************)
(* The null pointer, for a char* (a name) and for a file name.             *)
(***************************************************************************)
NULL == <<"NULL">>
NULLPATH == "NULL"

(***************************************************************************)
(* Characters.                                                             *)
(***************************************************************************)
Digits == <<"0", "1", "2", "3", "4", "5", "6", "7", "8", "9">>

isspace(c) == c \in {" ", "\t", "\n", "\r", "\f"}

isdigit(c) == \E d \in 1..10 : Digits[d] = c

DigitValue(c) == (CHOOSE d \in 1..10 : Digits[d] = c) - 1

\* The byte value of a character, as strcmp compares them.
Ord(c) ==
    CASE c = "\t" -> 9
      [] c = "\n" -> 10
      [] c = "\f" -> 12
      [] c = "\r" -> 13
      [] c = " " -> 32
      [] c = "#" -> 35
      [] c = "-" -> 45
      [] isdigit(c) -> 48 + DigitValue(c)
      [] c = "A" -> 65
      [] c = "B" -> 66
      [] c = "C" -> 67
      [] c = "U" -> 85
      [] c = "a" -> 97
      [] c = "b" -> 98
      [] c = "c" -> 99
      [] c = "d" -> 100
      [] c = "e" -> 101
      [] c = "m" -> 109
      [] c = "n" -> 110
      [] c = "x" -> 120
      [] c = "|" -> 124
      [] OTHER -> 63

Unnamed == <<"U", "n", "n", "a", "m", "e", "d">>

(***************************************************************************)
(* utils.c                                                                 *)
(***************************************************************************)
\* safe_strdup: a copy of s, or NULL when s is NULL or malloc fails.
safe_strdup(s, alloc_ok) == IF s = NULL \/ ~alloc_ok THEN NULL ELSE s

\* The position of the first character of s that is not white space, at or
\* after position i (Len(s) + 1 when there is none).
RECURSIVE SkipSpace(_, _)
SkipSpace(s, i) ==
    IF i <= Len(s) /\ isspace(s[i]) THEN SkipSpace(s, i + 1) ELSE i

\* The length of s[1..n] once its trailing white space is dropped.
RECURSIVE DropSpace(_, _)
DropSpace(s, n) ==
    IF n > 0 /\ isspace(s[n]) THEN DropSpace(s, n - 1) ELSE n

LeftTrim(s) == SubSeq(s, SkipSpace(s, 1), Len(s))

RightTrim(s) == SubSeq(s, 1, DropSpace(s, Len(s)))

\* trim_inplace: drop leading, then trailing, whitespace.
trim_inplace(s) == IF s = NULL THEN NULL ELSE RightTrim(LeftTrim(s))

(***************************************************************************)
(* libc: printf("%d"), strtol(s, NULL, 10) cast to int, strchr, fgets.     *)
(***************************************************************************)
RECURSIVE FormatNat(_)
FormatNat(n) ==
    IF n < 10 THEN <<Digits[n + 1]>>
    ELSE Append(FormatNat(n \div 10), Digits[(n % 10) + 1])

\* printf("%d", n)
FormatInt(n) == IF n < 0 THEN <<"-">> \o FormatNat(-n) ELSE FormatNat(n)

\* The value of the digits of s from position i on, continuing from acc.
RECURSIVE DigitPrefix(_, _, _)
DigitPrefix(s, i, acc) ==
    IF i > Len(s) \/ ~isdigit(s[i]) THEN acc
    ELSE DigitPrefix(s, i + 1, acc * 10 + DigitValue(s[i]))

\* (int)strtol(s, NULL, 10): skip white space, an optional sign, then the
\* digits; 0 when there is no digit.  Whatever follows the digits is ignored.
\* (The fields of the bounded model have few digits, so the value is in the
\* range of int and the cast keeps it.)
strtol(s) ==
    LET i == SkipSpace(s, 1)
        signed == i <= Len(s) /\ s[i] \in {"-", "+"}
        mag == DigitPrefix(s, IF signed THEN i + 1 ELSE i, 0)
    IN  IF signed /\ s[i] = "-" THEN 0 - mag ELSE mag

\* strchr(s + from - 1, c): the 1-based position of the first c at or after
\* position `from`, 0 when there is none.
RECURSIVE strchr(_, _, _)
strchr(s, from, c) ==
    IF from > Len(s) THEN 0
    ELSE IF s[from] = c THEN from
    ELSE strchr(s, from + 1, c)

\* One fgets(buffer, MAX_LINE_LENGTH, f) at offset pos - 1 of data: the length
\* of the chunk read: up to and including the first newline, at most
\* MAX_LINE_LENGTH - 1 bytes.
FgetsLen(data, pos) ==
    LET nl == strchr(data, pos, "\n")
        upto == IF nl = 0 THEN Len(data) - pos + 1 ELSE nl - pos + 1
    IN  IF upto > MAX_LINE_LENGTH - 1 THEN MAX_LINE_LENGTH - 1 ELSE upto

\* The successive buffers fgets returns from offset pos - 1 to end of file.
\* (A value bound with \in {...} is computed once.)
RECURSIVE FgetsFrom(_, _)
FgetsFrom(data, pos) ==
    IF pos > Len(data) THEN <<>>
    ELSE CHOOSE bufs \in
             {<<SubSeq(data, pos, pos + n - 1)>> \o FgetsFrom(data, pos + n) :
                  n \in {FgetsLen(data, pos)}} : TRUE

FgetsAll(data) == FgetsFrom(data, 1)

(***************************************************************************)
(* student.c: the roster.  A list value L is the StudentList struct:       *)
(* [items, capacity, modified, last_filename].  Each function is an        *)
(* operator from the struct (and the outcome of the allocations the call   *)
(* makes) to the struct after the call and the value returned.             *)
(***************************************************************************)
Student(roll, name, marks) == [roll |-> roll, name |-> name, marks |-> marks]

\* A null Student*; create_student never returns a Student whose name is NULL.
NoStudent == Student(0, NULL, 0)

List(its, cap, mod, fname) ==
    [items |-> its, capacity |-> cap, modified |-> mod, last_filename |-> fname]

TheList == List(items, capacity, modified, last_filename)

Result(L, ret) == [list |-> L, ret |-> ret, ub |-> FALSE]

\* init_student_list
init_student_list == List(<<>>, INITIAL_CAPACITY, FALSE, NULLPATH)

\* free_student_list
free_student_list(L) == List(<<>>, 0, FALSE, NULLPATH)

\* ensure_capacity that goes on when realloc has failed.
ensure_capacity_ignores_failure(L, realloc_ok) ==
    IF Len(L.items) < L.capacity THEN Result(L, "SUCCESS")
    ELSE IF ~realloc_ok THEN Result(L, "SUCCESS")
    ELSE Result([L EXCEPT !.capacity = L.capacity * 2], "SUCCESS")

\* ensure_capacity: realloc_ok is the outcome of realloc, when it is called
\* (for a capacity of 0 the request is of 0 bytes, which realloc may answer
\* with a null pointer or with a pointer to no storage).
ensure_capacity(L, realloc_ok) ==
    IF Len(L.items) < L.capacity THEN Result(L, "SUCCESS")
    ELSE IF ~realloc_ok THEN Result(L, "ERR_MEMORY")
    ELSE Result([L EXCEPT !.capacity = L.capacity * 2], "SUCCESS")

\* create_student: NoStudent when an allocation fails.
create_student(roll, name, marks, alloc_ok) ==
    LET copy == safe_strdup(IF name # NULL THEN name ELSE Unnamed, alloc_ok)
    IN  IF ~alloc_ok \/ copy = NULL THEN NoStudent
        ELSE Student(roll, copy, marks)

\* find_index_by_roll that starts its scan at the second record.
find_index_by_roll_from_second(L, roll) ==
    IF \E i \in 2..Len(L.items) : L.items[i].roll = roll
    THEN (CHOOSE i \in 2..Len(L.items) :
              /\ L.items[i].roll = roll
              /\ \A j \in 2..(i - 1) : L.items[j].roll # roll) - 1
    ELSE -1

\* find_index_by_roll: the 0-based index of the first match, or -1.
find_index_by_roll(L, roll) ==
    IF \E i \in 1..Len(L.items) : L.items[i].roll = roll
    THEN (CHOOSE i \in 1..Len(L.items) :
              /\ L.items[i].roll = roll
              /\ \A j \in 1..(i - 1) : L.items[j].roll # roll) - 1
    ELSE -1

\* add_student without its check for a duplicate roll number.
add_student_no_duplicate_check(L, s, realloc_ok) ==
    [list |-> [L EXCEPT !.items = Append(L.items, s), !.modified = TRUE],
     ret |-> "SUCCESS", ub |-> FALSE]

\* add_student that stores the record before it looks for a duplicate.
add_student_checks_after_storing(L, s, realloc_ok) ==
    IF find_index_by_roll(L, s.roll) >= 0
    THEN [list |-> [L EXCEPT !.items = Append(L.items, s), !.modified = TRUE],
          ret |-> "ERR_DUPLICATE", ub |-> FALSE]
    ELSE [list |-> [L EXCEPT !.items = Append(L.items, s), !.modified = TRUE],
          ret |-> "SUCCESS", ub |-> FALSE]

\* add_student.  Storing at items[size] with size >= capacity writes outside
\* the array: undefined behaviour.
add_student(L, s, realloc_ok) ==
    IF s = NoStudent THEN Result(L, "ERR_INVALID_INPUT")
    ELSE IF find_index_by_roll(L, s.roll) >= 0 THEN Result(L, "ERR_DUPLICATE")
    ELSE LET e == ensure_capacity(L, realloc_ok)
         IN  IF e.ret # "SUCCESS" THEN e
             ELSE [list |-> [e.list EXCEPT !.items = Append(L.items, s),
                                           !.modified = TRUE],
                   ret |-> "SUCCESS",
                   ub |-> Len(L.items) >= e.list.capacity]

\* A memmove that drops the last element whatever the index.
ShiftLeft_drops_last(its, index) == SubSeq(its, 1, Len(its) - 1)

\* The memmove of remove_student_by_index: items[index+1 ..] move down by one.
ShiftLeft(its, index) ==
    [i \in 1..(Len(its) - 1) |-> IF i < index + 1 THEN its[i] ELSE its[i + 1]]

\* remove_student_by_index that takes index = size for a position.
remove_student_by_index_up_to_size(L, index) ==
    IF index > Len(L.items) THEN Result(L, "ERR_INVALID_INPUT")
    ELSE Result([L EXCEPT !.items = ShiftLeft(L.items, index),
                          !.modified = TRUE], "SUCCESS")

\* remove_student_by_index (index is 0-based, a size_t).
remove_student_by_index(L, index) ==
    IF index >= Len(L.items) THEN Result(L, "ERR_INVALID_INPUT")
    ELSE Result([L EXCEPT !.items = ShiftLeft(L.items, index),
                          !.modified = TRUE], "SUCCESS")

\* The duplicate check of modify_student, without the exemption of the record
\* being modified.
RollConflict_any_record(L, index, new_roll) ==
    find_index_by_roll(L, new_roll) >= 0

\* The duplicate check of modify_student.
RollConflict(L, index, new_roll) ==
    /\ new_roll # L.items[index + 1].roll
    /\ LET existing == find_index_by_roll(L, new_roll)
       IN  existing >= 0 /\ existing # index

\* modify_student: roll and marks are stored, the old name is freed, and only
\* then is the new name copied; alloc_ok is the outcome of that copy.
modify_student(L, index, new_roll, new_name, new_marks, alloc_ok) ==
    IF index >= Len(L.items) THEN Result(L, "ERR_INVALID_INPUT")
    ELSE IF RollConflict(L, index, new_roll) THEN Result(L, "ERR_DUPLICATE")
    ELSE LET copy == safe_strdup(IF new_name # NULL THEN new_name ELSE Unnamed,
                                 alloc_ok)
             s == Student(new_roll, copy, new_marks)
             M == [L EXCEPT !.items[index + 1] = s]
         IN  IF copy = NULL THEN Result(M, "ERR_MEMORY")
             ELSE Result([M EXCEPT !.modified = TRUE], "SUCCESS")

(***************************************************************************)
(* Search and sort.                                                        *)
(***************************************************************************)
\* search_by_roll: the record found, NoStudent for a null pointer.
search_by_roll(L, roll) ==
    CHOOSE s \in
        {IF idx >= 0 THEN L.items[idx + 1] ELSE NoStudent :
             idx \in {find_index_by_roll(L, roll)}} : TRUE

\* strcmp on two non-null strings, from position i on: negative, 0 or positive.
RECURSIVE StrCmpFrom(_, _, _)
StrCmpFrom(a, b, i) ==
    IF i > Len(a) /\ i > Len(b) THEN 0
    ELSE IF i > Len(a) THEN 0 - Ord(b[i])
    ELSE IF i > Len(b) THEN Ord(a[i])
    ELSE IF a[i] # b[i] THEN Ord(a[i]) - Ord(b[i])
    ELSE StrCmpFrom(a, b, i + 1)

strcmp(a, b) == StrCmpFrom(a, b, 1)

\* The range of int.
INT_MAX == 2147483647

INT_MIN == -INT_MAX - 1

\* The int subtraction a - b overflows: undefined behaviour.
SubOverflows(a, b) ==
    \/ b < 0 /\ a > INT_MAX + b
    \/ b > 0 /\ a < INT_MIN + b

cmp_marks_asc(a, b) == a.marks - b.marks

cmp_marks_desc(a, b) == 0 - cmp_marks_asc(a, b)

cmp_name_asc(a, b) == strcmp(a.name, b.name)

Comparators == {"cmp_marks_asc", "cmp_marks_desc", "cmp_name_asc"}

Compare(cmp, a, b) ==
    CASE cmp = "cmp_marks_asc" -> cmp_marks_asc(a, b)
      [] cmp = "cmp_marks_desc" -> cmp_marks_desc(a, b)
      [] cmp = "cmp_name_asc" -> cmp_name_asc(a, b)

\* The comparison of two elements is undefined: cmp_name_asc hands a NULL
\* name to strcmp; cmp_marks_asc subtracts two marks whose difference is not
\* an int; cmp_marks_desc negates INT_MIN.
CompareUB(its, cmp) ==
    \/ cmp = "cmp_name_asc" /\ \E i \in 1..Len(its) : its[i].name = NULL
    \/ /\ cmp \in {"cmp_marks_asc", "cmp_marks_desc"}
       /\ \E i, j \in 1..Len(its) :
              i # j /\ SubOverflows(its[i].marks, its[j].marks)
    \/ /\ cmp = "cmp_marks_desc"
       /\ \E i, j \in 1..Len(its) :
              /\ i # j
              /\ ~SubOverflows(its[i].marks, its[j].marks)
              /\ its[i].marks - its[j].marks = INT_MIN

\* A qsort that leaves the array in any order.
qsort_any_order(its, cmp) ==
    {[i \in 1..Len(its) |-> its[p[i]]] : p \in Permutations(1..Len(its))}

\* qsort: some arrangement of the array that is in order under cmp; which one,
\* among elements that compare equal, is unspecified.
qsort(its, cmp) ==
    {[i \in 1..Len(its) |-> its[p[i]]] : p \in
        {q \in Permutations(1..Len(its)) :
            \A i, j \in 1..Len(its) :
                i < j => Compare(cmp, its[q[i]], its[q[j]]) <= 0}}

\* sort_students that sets the modified flag only when qsort moved a record.
sort_students_flag_on_change(L, cmp) ==
    IF Len(L.items) < 2 THEN {L}
    ELSE {[L EXCEPT !.items = sorted,
                    !.modified = L.modified \/ sorted # L.items] :
              sorted \in qsort(L.items, cmp)}

\* sort_students: the rosters the call may leave.
sort_students(L, cmp) ==
    IF Len(L.items) < 2 THEN {L}
    ELSE {[L EXCEPT !.items = sorted, !.modified = TRUE] :
              sorted \in qsort(L.items, cmp)}

(***************************************************************************)
(* ui.c: display_statistics.  What it prints is a record: nodata for the   *)
(* "No data available" message, else the numbers of the summary, the       *)
(* average in hundredths ("%.2f") and the pass rate in tenths ("%.1f").    *)
(***************************************************************************)
NoStatistics ==
    [nodata |-> TRUE, count |-> 0, avg |-> 0, max |-> 0, min |-> 0,
     pass |-> 0, rate |-> 0, fail |-> 0]

\* n / d rounded to the nearest integer, d > 0, as printf rounds a double to
\* the digits it prints.  (No roster of fewer than 8 records has a mean or a
\* pass rate half-way between two printed values.)
RoundDiv(n, d) ==
    IF n >= 0 THEN (2 * n + d) \div (2 * d)
    ELSE 0 - ((2 * (0 - n) + d) \div (2 * d))

\* The for loop of display_statistics over items[k ..]; acc holds pass_count,
\* fail_count, min_marks, max_marks and total_marks.
RECURSIVE StatisticsLoop(_, _, _)
StatisticsLoop(its, k, acc) ==
    IF k > Len(its) THEN acc
    ELSE CHOOSE out \in
             {StatisticsLoop(its, k + 1, next) :
                  next \in
                      {[pass |-> IF its[k].marks >= PASS_THRESHOLD
                                 THEN acc.pass + 1 ELSE acc.pass,
                        fail |-> IF its[k].marks >= PASS_THRESHOLD
                                 THEN acc.fail ELSE acc.fail + 1,
                        min |-> IF its[k].marks < acc.min
                                THEN its[k].marks ELSE acc.min,
                        max |-> IF its[k].marks > acc.max
                                THEN its[k].marks ELSE acc.max,
                        total |-> acc.total + its[k].marks]}} : TRUE

display_statistics(L) ==
    IF Len(L.items) = 0 THEN NoStatistics
    ELSE CHOOSE out \in
             {[nodata |-> FALSE,
               count |-> Len(L.items),
               avg |-> RoundDiv(100 * acc.total, Len(L.items)),
               max |-> acc.max,
               min |-> acc.min,
               pass |-> acc.pass,
               rate |-> RoundDiv(1000 * acc.pass, Len(L.items)),
               fail |-> acc.fail] :
                  acc \in {StatisticsLoop(L.items, 1,
                               [pass |-> 0, fail |-> 0, min |-> 100, max |-> 0,
                                total |-> 0])}} : TRUE

(***************************************************************************)
(* file_io.c: the codec.  A file is [exists, data], data being its bytes.  *)
(***************************************************************************)
\* A path in a directory that does not exist: fopen fails for it in any mode.
BADPATH == "nodir/students.txt"

\* A file the user may read and not write: fopen fails for it in mode "w".
READONLY == "archive.txt"

Paths == {FILENAME, BADPATH}

NoFile == [exists |-> FALSE, data |-> <<>>]

File(data) == [exists |-> TRUE, data |-> data]

\* fopen(filename, "w") succeeds (and creates or truncates the file).
CanOpenForWriting(F, filename) == filename \notin {BADPATH, READONLY}

\* fopen(filename, "r") succeeds.
CanOpenForReading(F, filename) == filename # BADPATH /\ F[filename].exists

\* "# Student Record System Data File\n"
Header1 ==
    <<"#", " ", "S", "t", "u", "d", "e", "n", "t", " ", "R", "e", "c", "o", "r", "d",
      " ", "S", "y", "s", "t", "e", "m", " ", "D", "a", "t", "a", " ", "F", "i", "l",
      "e", "\n">>

\* "# Format: roll|marks|name\n"
Header2 ==
    <<"#", " ", "F", "o", "r", "m", "a", "t", ":", " ", "r", "o", "l", "l", "|", "m",
      "a", "r", "k", "s", "|", "n", "a", "m", "e", "\n">>

\* "# Total records: %zu\n"
Header3(size) ==
    <<"#", " ", "T", "o", "t", "a", "l", " ", "r", "e", "c", "o", "r", "d", "s", ":",
      " ">> \o FormatNat(size) \o <<"\n">>

\* A line written with the marks before the roll.
FormatStudent_marks_first(s) ==
    FormatInt(s.marks) \o <<"|">> \o FormatInt(s.roll) \o <<"|">>
        \o (IF s.name # NULL THEN s.name ELSE <<>>) \o <<"\n">>

\* "%d|%d|%s\n" of one student; a NULL name is written as "".
FormatStudent(s) ==
    FormatInt(s.roll) \o <<"|">> \o FormatInt(s.marks) \o <<"|">>
        \o (IF s.name # NULL THEN s.name ELSE <<>>) \o <<"\n">>

\* A loop over the records that starts at the second one.
RECURSIVE FormatStudents_from_second(_, _)
FormatStudents_from_second(its, k) ==
    IF k > Len(its) THEN <<>>
    ELSE (IF k = 1 THEN <<>> ELSE FormatStudent(its[k]))
             \o FormatStudents_from_second(its, k + 1)

\* The lines of the students its[k ..], one after the other.
RECURSIVE FormatStudents(_, _)
FormatStudents(its, k) ==
    IF k > Len(its) THEN <<>>
    ELSE FormatStudent(its[k]) \o FormatStudents(its, k + 1)

\* The bytes save_to_file writes.
FileText(its) ==
    Header1 \o Header2 \o Header3(Len(its)) \o FormatStudents(its, 1)

\* save_to_file that clears the modified flag before it copies the file name.
save_to_file_clears_early(L, F, filename, alloc_ok) ==
    IF filename = NULLPATH THEN [list |-> L, fs |-> F, ret |-> "ERR_INVALID_INPUT"]
    ELSE IF ~CanOpenForWriting(F, filename)
    THEN [list |-> L, fs |-> F, ret |-> "ERR_FILE_IO"]
    ELSE LET G == [F EXCEPT ![filename] = File(FileText(L.items))]
         IN  IF ~alloc_ok
             THEN [list |-> [L EXCEPT !.modified = FALSE], fs |-> G,
                   ret |-> "ERR_MEMORY"]
             ELSE [list |-> [L EXCEPT !.last_filename = filename,
                                      !.modified = FALSE],
                   fs |-> G, ret |-> "SUCCESS"]

\* save_to_file: the list and the file system it leaves, and its return value;
\* alloc_ok is the outcome of copying the file name, after the file is written.
save_to_file(L, F, filename, alloc_ok) ==
    IF filename = NULLPATH THEN [list |-> L, fs |-> F, ret |-> "ERR_INVALID_INPUT"]
    ELSE IF ~CanOpenForWriting(F, filename)
    THEN [list |-> L, fs |-> F, ret |-> "ERR_FILE_IO"]
    ELSE LET G == [F EXCEPT ![filename] = File(FileText(L.items))]
         IN  IF ~alloc_ok THEN [list |-> L, fs |-> G, ret |-> "ERR_MEMORY"]
             ELSE [list |-> [L EXCEPT !.last_filename = filename,
                                      !.modified = FALSE],
                   fs |-> G, ret |-> "SUCCESS"]

\* What load_from_file makes of one buffer read by fgets: "skip" for a comment,
\* an empty line, a line without two '|', or one whose values fail the
\* validation; else "data" with the roll, marks and trimmed name parsed.
ParseLine(buffer) ==
    LET skip == [kind |-> "skip", roll |-> 0, marks |-> 0, name |-> <<>>]
        nl == strchr(buffer, 1, "\n")
        line == IF nl = 0 THEN buffer ELSE SubSeq(buffer, 1, nl - 1)
        p1 == strchr(line, 1, "|")
        p2 == strchr(line, p1 + 1, "|")
        roll == strtol(SubSeq(line, 1, p1 - 1))
        marks == strtol(SubSeq(line, p1 + 1, p2 - 1))
        name == trim_inplace(SubSeq(line, p2 + 1, Len(line)))
    IN  IF buffer[1] = "#" \/ buffer[1] = "\n" THEN skip
        ELSE IF p1 = 0 THEN skip
        ELSE IF p2 = 0 THEN skip
        ELSE IF roll <= 0 \/ marks < 0 \/ marks > 100 THEN skip
        ELSE [kind |-> "data", roll |-> roll, marks |-> marks, name |-> name]

\* A data line whose roll is already in the list replaces that record.
LoadLine_last_wins(st, buffer, alloc_ok) ==
    LET p == ParseLine(buffer)
        s == create_student(p.roll, p.name, p.marks, alloc_ok)
        a == add_student(st.list, s, alloc_ok)
    IN  IF s # NoStudent /\ a.ret = "SUCCESS"
        THEN [list |-> a.list, loaded |-> st.loaded + 1, ub |-> st.ub \/ a.ub]
        ELSE IF s # NoStudent /\ a.ret = "ERR_DUPLICATE"
        THEN [st EXCEPT !.list.items =
                 [i \in 1..Len(st.list.items) |->
                      IF st.list.items[i].roll = s.roll THEN s
                      ELSE st.list.items[i]]]
        ELSE st

\* One turn of the read loop of load_from_file: st is [list, loaded, ub],
\* alloc_ok the outcome of the allocations made for the line
\* (create_student's, and ensure_capacity's realloc): when one fails, or the
\* roll is already in the list, the line is skipped.
LoadLine(st, buffer, alloc_ok) ==
    LET p == ParseLine(buffer)
        s == create_student(p.roll, p.name, p.marks, alloc_ok)
        a == add_student(st.list, s, alloc_ok)
    IN  IF s # NoStudent /\ a.ret = "SUCCESS"
        THEN [list |-> a.list, loaded |-> st.loaded + 1, ub |-> st.ub \/ a.ub]
        ELSE st

\* A read loop that a line load_from_file skips brings to its end.
RECURSIVE LoadLines_stops_at_skip(_, _, _, _, _)
LoadLines_stops_at_skip(st, buffers, k, allocs, j) ==
    IF k > Len(buffers) THEN st
    ELSE IF ParseLine(buffers[k]).kind = "skip" THEN st
    ELSE CHOOSE out \in
             {LoadLines_stops_at_skip(next, buffers, k + 1, allocs, j + 1) :
                  next \in {LoadLine(st, buffers[k], allocs[j])}} : TRUE

\* The read loop over buffers[k ..]; allocs[j] is the outcome of the
\* allocations for the next data line.
RECURSIVE LoadLines(_, _, _, _, _)
LoadLines(st, buffers, k, allocs, j) ==
    IF k > Len(buffers) THEN st
    ELSE IF ParseLine(buffers[k]).kind = "skip"
    THEN LoadLines(st, buffers, k + 1, allocs, j)
    ELSE CHOOSE out \in
             {LoadLines(next, buffers, k + 1, allocs, j + 1) :
                  next \in {LoadLine(st, buffers[k], allocs[j])}} : TRUE

\* A read loop that starts from the list as it is, without clearing it.
ReadLoop_keeps_records(L, data, allocs) ==
    CHOOSE st \in
        {LoadLines([list |-> L, loaded |-> 0, ub |-> FALSE],
                   buffers, 1, allocs, 1) :
             buffers \in {FgetsAll(data)}} : TRUE

\* load_from_file from the clearing of the list to the end of the while loop.
ReadLoop(L, data, allocs) ==
    CHOOSE st \in
        {LoadLines([list |-> [L EXCEPT !.items = <<>>], loaded |-> 0, ub |-> FALSE],
                   buffers, 1, allocs, 1) :
             buffers \in {FgetsAll(data)}} : TRUE

\* The number of data lines of a file: the lines create_student is called for.
DataLines(data) ==
    CHOOSE n \in
        {Cardinality({k \in 1..Len(buffers) : ParseLine(buffers[k]).kind = "data"}) :
             buffers \in {FgetsAll(data)}} : TRUE

\* load_from_file that records nothing when no record was accepted.
load_from_file_records_if_any(L, F, filename, allocs, alloc_ok) ==
    IF filename = NULLPATH
    THEN [list |-> L, ret |-> "ERR_INVALID_INPUT", loaded |-> 0, ub |-> FALSE]
    ELSE IF ~CanOpenForReading(F, filename)
    THEN [list |-> L, ret |-> "ERR_FILE_IO", loaded |-> 0, ub |-> FALSE]
    ELSE CHOOSE out \in
             {IF ~alloc_ok
              THEN [list |-> st.list, ret |-> "ERR_MEMORY",
                    loaded |-> st.loaded, ub |-> st.ub]
              ELSE IF st.loaded = 0
              THEN [list |-> st.list, ret |-> "SUCCESS",
                    loaded |-> st.loaded, ub |-> st.ub]
              ELSE [list |-> [st.list EXCEPT !.last_filename = filename,
                                             !.modified = FALSE],
                    ret |-> "SUCCESS", loaded |-> st.loaded, ub |-> st.ub] :
                  st \in {ReadLoop(L, F[filename].data, allocs)}} : TRUE

\* load_from_file that clears the list before it opens the file.
load_from_file_clears_first(L, F, filename, allocs, alloc_ok) ==
    IF filename = NULLPATH
    THEN [list |-> L, ret |-> "ERR_INVALID_INPUT", loaded |-> 0, ub |-> FALSE]
    ELSE IF ~CanOpenForReading(F, filename)
    THEN [list |-> [L EXCEPT !.items = <<>>], ret |-> "ERR_FILE_IO",
          loaded |-> 0, ub |-> FALSE]
    ELSE CHOOSE out \in
             {IF ~alloc_ok
              THEN [list |-> st.list, ret |-> "ERR_MEMORY",
                    loaded |-> st.loaded, ub |-> st.ub]
              ELSE [list |-> [st.list EXCEPT !.last_filename = filename,
                                             !.modified = FALSE],
                    ret |-> "SUCCESS", loaded |-> st.loaded, ub |-> st.ub] :
                  st \in {ReadLoop(L, F[filename].data, allocs)}} : TRUE

\* load_from_file: [list, ret, loaded, ub].  allocs are the outcomes of the
\* allocations made per data line, alloc_ok that of copying the file name.
load_from_file(L, F, filename, allocs, alloc_ok) ==
    IF filename = NULLPATH
    THEN [list |-> L, ret |-> "ERR_INVALID_INPUT", loaded |-> 0, ub |-> FALSE]
    ELSE IF ~CanOpenForReading(F, filename)
    THEN [list |-> L, ret |-> "ERR_FILE_IO", loaded |-> 0, ub |-> FALSE]
    ELSE CHOOSE out \in
             {IF ~alloc_ok
              THEN [list |-> st.list, ret |-> "ERR_MEMORY",
                    loaded |-> st.loaded, ub |-> st.ub]
              ELSE [list |-> [st.list EXCEPT !.last_filename = filename,
                                             !.modified = FALSE],
                    ret |-> "SUCCESS", loaded |-> st.loaded, ub |-> st.ub] :
                  st \in {ReadLoop(L, F[filename].data, allocs)}} : TRUE

(***************************************************************************)
(* The inputs of the model.                                                *)
(***************************************************************************)
\* The (roll, name, marks) triples handed to create_student and to
\* modify_student.  Neither function checks them, so some are out of range.
StudentInputs ==
    { <<1, <<"a">>, 50>>,
      <<1, <<" ", "b">>, 90>>,
      <<2, <<"b">>, 0>>,
      <<0, <<"a">>, 50>>,
      <<2, <<"b">>, 101>> }

\* Lines of a data file written by hand.
Line_1_50_a == <<"1", "|", "5", "0", "|", "a", "\n">>
Line_2_0_b == <<"2", "|", "0", "|", "b", "\n">>
Line_1_90_b == <<"1", "|", "9", "0", "|", "b", "\n">>
Line_2_x_b == <<"2", "|", "x", "|", "b", "\n">>
Line_x_50_a == <<"x", "|", "5", "0", "|", "a", "\n">>
Line_2_90 == <<"2", "|", "9", "0", "\n">>
Line_ab == <<"a", "b", "\n">>
Line_2_101_b == <<"2", "|", "1", "0", "1", "|", "b", "\n">>
Line_0_50_a == <<"0", "|", "5", "0", "|", "a", "\n">>
Line_1_neg_a == <<"1", "|", "-", "1", "|", "a", "\n">>
Line_garbage == <<"2", "x", "|", "0", "y", "|", " ", "b", " ", "\n">>
Line_comment == <<"#", " ", "x", "\n">>
Line_empty == <<"\n">>
Line_1_50_a_eof == <<"1", "|", "5", "0", "|", "a">>
Line_3_7_none == <<"3", "|", "7", "|", "\n">>
Line_3_7_blank == <<"3", "|", "7", "|", " ", "\n">>
Line_plus3 == <<" ", "+", "3", "|", " ", "7", "z", "|", "c", " ", "d", "|", "\n">>

\* The lines a data file is made of.
FileLines ==
    { Line_1_50_a, Line_2_0_b, Line_1_90_b, Line_2_90, Line_ab,
      Line_2_101_b, Line_0_50_a, Line_1_neg_a, Line_garbage, Line_comment,
      Line_empty, Line_3_7_none, Line_3_7_blank, Line_plus3 }

\* The text of the lines ls[k ..], one after the other.
RECURSIVE Concat(_, _)
Concat(ls, k) == IF k > Len(ls) THEN <<>> ELSE ls[k] \o Concat(ls, k + 1)

\* The files of at most MaxLines of these lines.
GivenFiles ==
    UNION {{Concat(ls, 1) : ls \in [1..n -> FileLines]} : n \in 0..MaxLines}

\* The contents a user may have given the data file.
SampleFiles ==
    { <<>>,
      Line_comment \o Line_empty \o Line_1_50_a \o Line_2_0_b,
      Line_1_50_a \o Line_1_90_b \o Line_2_0_b,
      Line_1_50_a \o Line_2_x_b,
      Line_x_50_a \o Line_2_90 \o Line_ab \o Line_2_0_b,
      Line_2_101_b \o Line_0_50_a \o Line_1_neg_a \o Line_1_50_a_eof,
      Line_garbage }

\* The outcomes of an allocation: it succeeds, or, when memory may run out,
\* it may fail.
AllocOutcomes(oom) == IF oom THEN BOOLEAN ELSE {TRUE}

\* The outcomes of ensure_capacity's realloc: as any allocation, and for a
\* request of 0 bytes (capacity 0) either a null pointer or not.
ReallocOutcomes(oom) == IF oom \/ capacity = 0 THEN BOOLEAN ELSE {TRUE}

(***************************************************************************)
(* The state machine.  Each action is one call on the roster `list` of     *)
(* main; call records the call, its arguments and what it returned,        *)
(* was_modified the flag before the call, and for a sort, kept: whether    *)
(* the records are still in the order they were in, and again: whether the *)
(* call before it was a sort by the same comparator, and for a search,     *)
(* roll: the roll looked for, with the index returned in index or the      *)
(* record returned in s; in the menu loop of main, offered: whether the    *)
(* user has been asked to save the roster as it is now.  saved is the      *)
(* roster save_to_file last wrote, while the file still holds it.          *)
(***************************************************************************)
Call(op, ret) ==
    [op |-> op, ret |-> ret, s |-> NoStudent, index |-> 0, path |-> NULLPATH,
     cmp |-> "", loaded |-> 0, was_modified |-> modified, kept |-> FALSE,
     again |-> FALSE, stats |-> NoStatistics, roll |-> 0, offered |-> FALSE]

NoSave == [valid |-> FALSE, items |-> <<>>]

Init ==
    /\ items = init_student_list.items
    /\ capacity = init_student_list.capacity
    /\ modified = init_student_list.modified
    /\ last_filename = init_student_list.last_filename
    /\ fs = [p \in Paths |-> NoFile]
    /\ call = [op |-> "init", ret |-> "SUCCESS", s |-> NoStudent, index |-> 0,
               path |-> NULLPATH, cmp |-> "", loaded |-> 0, was_modified |-> FALSE,
               kept |-> FALSE, again |-> FALSE, stats |-> NoStatistics,
               roll |-> 0, offered |-> FALSE]
    /\ saved = NoSave
    /\ ub = FALSE

\* The struct after a call.
SetList(L) ==
    /\ items' = L.items
    /\ capacity' = L.capacity
    /\ modified' = L.modified
    /\ last_filename' = L.last_filename

\* add_student(&list, create_student(roll, name, marks))
AddStudent(oom) ==
    \E t \in StudentInputs, ok \in ReallocOutcomes(oom) :
        \E s \in {create_student(t[1], t[2], t[3], TRUE)} :
        \E r \in {add_student(TheList, s, ok)} :
            /\ ~ub
            /\ Len(r.list.items) <= MaxSize
            /\ SetList(r.list)
            /\ ub' = r.ub
            /\ call' = [Call("add", r.ret) EXCEPT !.s = s]
            /\ UNCHANGED <<fs, saved>>

\* remove_student_by_index(&list, index)
RemoveStudent ==
    \E index \in 0..MaxIndex :
        \E r \in {remove_student_by_index(TheList, index)} :
            /\ ~ub
            /\ SetList(r.list)
            /\ call' = [Call("remove", r.ret) EXCEPT !.index = index]
            /\ UNCHANGED <<fs, saved, ub>>

\* modify_student(&list, index, new_roll, new_name, new_marks)
ModifyStudent(oom) ==
    \E index \in 0..MaxIndex, t \in StudentInputs, ok \in AllocOutcomes(oom) :
        \E r \in {modify_student(TheList, index, t[1], t[2], t[3], ok)} :
            /\ ~ub
            /\ SetList(r.list)
            /\ call' = [Call("modify", r.ret) EXCEPT
                           !.index = index, !.s = Student(t[1], t[2], t[3])]
            /\ UNCHANGED <<fs, saved, ub>>

\* sort_students(&list, cmp)
SortStudents ==
    \E cmp \in Comparators :
        /\ ~ub
        /\ IF Len(items) >= 2 /\ CompareUB(items, cmp)
           THEN /\ ub' = TRUE
                /\ UNCHANGED <<items, capacity, modified, last_filename>>
           ELSE /\ \E L \in sort_students(TheList, cmp) : SetList(L)
                /\ ub' = FALSE
        /\ call' = [Call("sort", "void") EXCEPT
                       !.cmp = cmp,
                       !.kept = (items' = items),
                       !.again = (call.op = "sort" /\ call.cmp = cmp)]
        /\ UNCHANGED <<fs, saved>>

\* save_to_file(&list, filename)
SaveToFile(oom) ==
    \E filename \in Paths, ok \in AllocOutcomes(oom) :
        \E r \in {save_to_file(TheList, fs, filename, ok)} :
            /\ ~ub
            /\ SetList(r.list)
            /\ fs' = r.fs
            /\ saved' = IF r.ret \in {"SUCCESS", "ERR_MEMORY"}
                        THEN [valid |-> TRUE, items |-> items]
                        ELSE saved
            /\ call' = [Call("save", r.ret) EXCEPT !.path = filename]
            /\ UNCHANGED ub

\* load_from_file(&list, filename)
LoadFromFile(oom) ==
    \E filename \in Paths, ok \in AllocOutcomes(oom) :
        \E allocs \in [1..DataLines(fs[filename].data) -> ReallocOutcomes(oom)] :
            \E r \in {load_from_file(TheList, fs, filename, allocs, ok)} :
                /\ ~ub
                /\ SetList(r.list)
                /\ ub' = r.ub
                /\ call' = [Call("load", r.ret) EXCEPT
                               !.path = filename, !.loaded = r.loaded]
                /\ UNCHANGED <<fs, saved>>

\* free_student_list(&list)
FreeStudentList ==
    /\ ~ub
    /\ SetList(free_student_list(TheList))
    /\ call' = Call("free", "void")
    /\ UNCHANGED <<fs, saved, ub>>

\* init_student_list(&list), on a list that has been freed.
InitStudentList ==
    /\ ~ub
    /\ capacity = 0
    /\ SetList(init_student_list)
    /\ call' = Call("init", "SUCCESS")
    /\ UNCHANGED <<fs, saved, ub>>

\* display_statistics(&list)
DisplayStatistics ==
    /\ ~ub
    /\ call' = [Call("statistics", "void") EXCEPT
                   !.stats = display_statistics(TheList)]
    /\ UNCHANGED <<items, capacity, modified, last_filename, fs, saved, ub>>

\* The user replaces the data file, outside the program.
EditFile ==
    \E data \in SampleFiles :
        /\ ~ub
        /\ fs' = [fs EXCEPT ![FILENAME] = File(data)]
        /\ saved' = NoSave
        /\ call' = Call("edit", "void")
        /\ UNCHANGED <<items, capacity, modified, last_filename, ub>>

(***************************************************************************)
(* Spec: the roster and the codec while every allocation succeeds.         *)
(***************************************************************************)
Add == AddStudent(FALSE)
Remove == RemoveStudent
Modify == ModifyStudent(FALSE)
Sort == SortStudents
Save == SaveToFile(FALSE)
Load == LoadFromFile(FALSE)

Next == Add \/ Remove \/ Modify \/ Sort \/ Save \/ Load \/ EditFile

Spec == Init /\ [][Next]_vars

(***************************************************************************)
(* SpecOOM: the calls on the roster in memory when an allocation may fail. *)
(***************************************************************************)
AddOOM == AddStudent(TRUE)
ModifyOOM == ModifyStudent(TRUE)

NextOOM == AddOOM \/ Remove \/ ModifyOOM \/ Sort

SpecOOM == Init /\ [][NextOOM]_vars

(***************************************************************************)
(* SpecLife: the life of the roster.  Records are added, removed and       *)
(* sorted; the roster is saved and loaded, when opening the file or an     *)
(* allocation may fail; it is reset by free_student_list and made anew by  *)
(* init_student_list.  The files loaded are those the program has saved.   *)
(***************************************************************************)
SaveOOM == SaveToFile(TRUE)
LoadOOM == LoadFromFile(TRUE)

NextLife ==
    \/ Add \/ Remove \/ Sort \/ SaveOOM \/ LoadOOM
    \/ FreeStudentList \/ InitStudentList

SpecLife == Init /\ [][NextLife]_vars

(***************************************************************************)
(* SpecSync: a roster loaded from the data file and changed in memory,     *)
(* when the allocation made by modify_student may fail.                    *)
(***************************************************************************)
NextSync == Add \/ Remove \/ ModifyOOM \/ Sort \/ Load \/ EditFile

SpecSync == Init /\ [][NextSync]_vars

(***************************************************************************)
(* SpecSort: sort_students, called any number of times on a roster that    *)
(* add_student has built.  The records tie on marks, tie on names, or hold *)
(* marks at the ends of the range of int (add_student stores any marks).   *)
(***************************************************************************)
SortRecords ==
    { Student(1, <<"b">>, 50),
      Student(2, <<"a">>, 50),
      Student(3, <<"b">>, 90),
      Student(4, <<"a", "b">>, 0),
      Student(5, <<"c">>, INT_MAX),
      Student(6, <<"d">>, -1) }

\* The rosters of at most MaxGiven of these records.
SortRosters ==
    UNION {{its \in [1..n -> SortRecords] :
               \A i, j \in 1..n : i # j => its[i] # its[j]} : n \in 0..MaxGiven}

InitSort ==
    /\ items \in SortRosters
    /\ capacity = init_student_list.capacity
    /\ modified \in BOOLEAN
    /\ last_filename = init_student_list.last_filename
    /\ fs = [p \in Paths |-> NoFile]
    /\ call = [Call("init", "SUCCESS") EXCEPT !.was_modified = FALSE]
    /\ saved = NoSave
    /\ ub = FALSE

NextSort == Sort

SpecSort == InitSort /\ [][NextSort]_vars

(***************************************************************************)
(* SpecStats: display_statistics on a roster that add_student has built;   *)
(* add_student stores marks outside 0..100 as well.                        *)
(***************************************************************************)
StatsRecords ==
    { Student(1, <<"A">>, 90),
      Student(2, <<"B">>, 30),
      Student(3, <<"C">>, 40),
      Student(4, <<"a">>, 100),
      Student(5, <<"b">>, 101),
      Student(6, <<"c">>, -1) }

StatsRosters ==
    UNION {{its \in [1..n -> StatsRecords] :
               \A i, j \in 1..n : i # j => its[i] # its[j]} : n \in 0..MaxGiven}

InitStats ==
    /\ items \in StatsRosters
    /\ capacity = init_student_list.capacity
    /\ modified \in BOOLEAN
    /\ last_filename = init_student_list.last_filename
    /\ fs = [p \in Paths |-> NoFile]
    /\ call = [Call("init", "SUCCESS") EXCEPT !.was_modified = FALSE]
    /\ saved = NoSave
    /\ ub = FALSE

NextStats == DisplayStatistics

SpecStats == InitStats /\ [][NextStats]_vars

(***************************************************************************)
(* SpecLoad: load_from_file, called on a data file written by hand, while  *)
(* every allocation succeeds; the roster holds a record that has not been  *)
(* saved.                                                                  *)
(***************************************************************************)
InitLoad ==
    /\ items = <<Student(9, <<"z">>, 9)>>
    /\ modified = TRUE
    /\ capacity = init_student_list.capacity
    /\ last_filename = init_student_list.last_filename
    /\ \E data \in GivenFiles :
           fs = [p \in Paths |-> IF p = FILENAME THEN File(data) ELSE NoFile]
    /\ call = [Call("init", "SUCCESS") EXCEPT !.was_modified = FALSE]
    /\ saved = NoSave
    /\ ub = FALSE

NextLoad == Load

SpecLoad == InitLoad /\ [][NextLoad]_vars

(***************************************************************************)
(* SpecGrow: a roster filled beyond its initial capacity, when the realloc *)
(* of ensure_capacity may fail.  The record added has a roll of the roster *)
(* or the next roll not in it, and the record removed is the last one, so  *)
(* the rolls of the roster are 1, 2, ... in this order.                    *)
(***************************************************************************)
\* add_student(&list, create_student(roll, "a", 50)), on a roster of any size.
GrowRoster(oom) ==
    \E roll \in 1..(Len(items) + 1), ok \in ReallocOutcomes(oom) :
        \E s \in {create_student(roll, <<"a">>, 50, TRUE)} :
        \E r \in {add_student(TheList, s, ok)} :
            /\ ~ub
            /\ Len(items) < MaxRecords
            /\ SetList(r.list)
            /\ ub' = r.ub
            /\ call' = [Call("add", r.ret) EXCEPT !.s = s]
            /\ UNCHANGED <<fs, saved>>

\* remove_student_by_index(&list, list.size - 1)
RemoveLast ==
    \E r \in {remove_student_by_index(TheList, Len(items) - 1)} :
        /\ ~ub
        /\ Len(items) > 0
        /\ SetList(r.list)
        /\ call' = [Call("remove", r.ret) EXCEPT !.index = Len(items) - 1]
        /\ UNCHANGED <<fs, saved, ub>>

GrowOOM == GrowRoster(TRUE)

NextGrow == GrowOOM \/ RemoveLast

SpecGrow == Init /\ [][NextGrow]_vars

(***************************************************************************)
(* SpecReset: the roster filled, emptied, reset by free_student_list and   *)
(* used again, with or without a new init_student_list, while no           *)
(* allocation of a size above 0 fails.                                     *)
(***************************************************************************)
Grow == GrowRoster(FALSE)

NextReset == Grow \/ RemoveLast \/ FreeStudentList \/ InitStudentList

SpecReset == Init /\ [][NextReset]_vars

(***************************************************************************)
(* SpecFind: find_index_by_roll and search_by_roll on a roster that        *)
(* add_student has built, for rolls that are in it and rolls that are not. *)
(***************************************************************************)
\* The rolls looked for.
FindRolls == {0} \cup {s.roll : s \in SortRecords} \cup {7}

\* find_index_by_roll(&list, roll)
FindIndexByRoll ==
    \E roll \in FindRolls :
        \E idx \in {find_index_by_roll(TheList, roll)} :
            /\ ~ub
            /\ call' = [Call("find", IF idx >= 0 THEN "FOUND" ELSE "NOT_FOUND")
                            EXCEPT !.roll = roll, !.index = idx]
            /\ UNCHANGED <<items, capacity, modified, last_filename, fs, saved, ub>>

\* search_by_roll(&list, roll)
SearchByRoll ==
    \E roll \in FindRolls :
        \E s \in {search_by_roll(TheList, roll)} :
            /\ ~ub
            /\ call' = [Call("search", IF s # NoStudent THEN "FOUND" ELSE "NOT_FOUND")
                            EXCEPT !.roll = roll, !.s = s]
            /\ UNCHANGED <<items, capacity, modified, last_filename, fs, saved, ub>>

NextFind == FindIndexByRoll \/ SearchByRoll

SpecFind == InitSort /\ [][NextFind]_vars

(***************************************************************************)
(* SpecShell: the menu loop of main (student_records.c), one action per    *)
(* menu option, while every allocation succeeds.  The data file may hold   *)
(* the record of an earlier session, and the user has an archive that can  *)
(* be read and not written.                                                *)
(***************************************************************************)
\* What prompt_student_input returns: a roll in 1..99999, a trimmed name of
\* 1 to MAX_NAME_LENGTH characters, marks in 0..100.
ShellInputs ==
    { <<1, <<"a">>, 50>>,
      <<2, <<"b">>, 0>> }

\* The file names the user types at the prompts of options 10 and 11.
ShellPaths == {FILENAME, READONLY, BADPATH}

\* The data file as an earlier session left it.
EarlierFiles == {NoFile, File(FileText(<<Student(2, <<"b">>, 0)>>))}

\* main up to its menu loop: init_student_list(&list).
InitShell ==
    /\ items = init_student_list.items
    /\ capacity = init_student_list.capacity
    /\ modified = init_student_list.modified
    /\ last_filename = init_student_list.last_filename
    /\ \E f \in EarlierFiles :
           fs = [p \in ShellPaths |->
                    IF p = FILENAME THEN f
                    ELSE IF p = READONLY
                    THEN File(FileText(<<Student(2, <<"b">>, 0)>>))
                    ELSE NoFile]
    /\ call = [Call("init", "SUCCESS") EXCEPT !.was_modified = FALSE]
    /\ saved = NoSave
    /\ ub = FALSE

\* `list.last_filename ? list.last_filename : FILENAME`
DefaultFilename == IF last_filename # NULLPATH THEN last_filename ELSE FILENAME

\* The menu loop is running: no undefined behaviour so far, and no exit.
Running == ~ub /\ call.op # "menu0"

\* case 1: add a student, then save the roster.  call.ret is what
\* add_student returned, or what save_to_file returned after it.
Menu1 ==
    \E t \in ShellInputs :
        \E s \in {create_student(t[1], t[2], t[3], TRUE)} :
        \E a \in {add_student(TheList, s, TRUE)} :
        \E r \in {IF a.ret = "SUCCESS"
                   THEN save_to_file(a.list, fs, DefaultFilename, TRUE)
                   ELSE [list |-> a.list, fs |-> fs, ret |-> a.ret]} :
            /\ Running
            /\ Len(a.list.items) <= MaxSize
            /\ SetList(r.list)
            /\ fs' = r.fs
            /\ ub' = a.ub
            /\ call' = [Call("menu1", r.ret) EXCEPT
                            !.s = s, !.path = DefaultFilename,
                            !.offered = (a.ret # "SUCCESS" /\ call.offered)]
            /\ UNCHANGED saved

\* The reload that opens cases 2 and 3: load_from_file(&list, filename) when
\* the file can be opened; what it returns is not looked at.
Reload ==
    IF CanOpenForReading(fs, DefaultFilename)
    THEN load_from_file(TheList, fs, DefaultFilename,
                        [k \in 1..DataLines(fs[DefaultFilename].data) |-> TRUE],
                        TRUE).list
    ELSE TheList

\* `filename` was list.last_filename, and load_from_file has freed that
\* string: a later use of `filename` reads freed memory.
Dangling ==
    last_filename # NULLPATH /\ CanOpenForReading(fs, DefaultFilename)

\* What the user types at the prompts of case 2 for the record cur: new
\* values, or Enter at the three prompts to keep the current ones.
ModifyInputs(cur) == ShellInputs \cup {<<cur.roll, cur.name, cur.marks>>}

\* case 2: reload, look the roll up, modify the record and save.
Menu2 ==
    \E roll \in {t[1] : t \in ShellInputs} :
        \E L \in {Reload} :
        \E idx \in {find_index_by_roll(L, roll)} :
            /\ Running
            /\ IF idx < 0
               THEN /\ SetList(L)
                    /\ call' = [Call("menu2", "NOT_FOUND") EXCEPT
                                    !.roll = roll,
                                    !.offered = (L = TheList /\ call.offered)]
                    /\ UNCHANGED <<fs, ub>>
               ELSE \E t \in ModifyInputs(L.items[idx + 1]) :
                    \E m \in {modify_student(L, idx, t[1], t[2], t[3], TRUE)} :
                        IF m.ret # "SUCCESS"
                        THEN /\ SetList(m.list)
                             /\ call' = [Call("menu2", m.ret) EXCEPT !.roll = roll]
                             /\ UNCHANGED <<fs, ub>>
                        ELSE IF Dangling
                        THEN /\ SetList(m.list)
                             /\ ub' = TRUE
                             /\ call' = [Call("menu2", "SUCCESS") EXCEPT !.roll = roll]
                             /\ UNCHANGED fs
                        ELSE \E r \in {save_to_file(m.list, fs, DefaultFilename, TRUE)} :
                             /\ SetList(r.list)
                             /\ fs' = r.fs
                             /\ call' = [Call("menu2", r.ret) EXCEPT !.roll = roll]
                             /\ UNCHANGED ub
            /\ UNCHANGED saved

\* case 3: reload, look the roll up, ask, remove the record and save.
Menu3 ==
    \E roll \in {t[1] : t \in ShellInputs}, yes \in BOOLEAN :
        \E L \in {Reload} :
        \E idx \in {find_index_by_roll(L, roll)} :
            /\ Running
            /\ IF idx < 0 \/ ~yes
               THEN /\ SetList(L)
                    /\ call' = [Call("menu3", IF idx < 0 THEN "NOT_FOUND"
                                              ELSE "CANCELLED") EXCEPT
                                    !.roll = roll,
                                    !.offered = (L = TheList /\ call.offered)]
                    /\ UNCHANGED <<fs, ub>>
               ELSE \E m \in {remove_student_by_index(L, idx)} :
                        IF Dangling
                        THEN /\ SetList(m.list)
                             /\ ub' = TRUE
                             /\ call' = [Call("menu3", "SUCCESS") EXCEPT !.roll = roll]
                             /\ UNCHANGED fs
                        ELSE \E r \in {save_to_file(m.list, fs, DefaultFilename, TRUE)} :
                             /\ SetList(r.list)
                             /\ fs' = r.fs
                             /\ call' = [Call("menu3", r.ret) EXCEPT !.roll = roll]
                             /\ UNCHANGED ub
            /\ UNCHANGED saved

\* cases 4, 5 and 6: display_from_file, search_in_file and
\* statistics_from_file read the data file and print; the list is not used.
MenuFromFile ==
    /\ Running
    /\ call' = [Call("menu4", IF CanOpenForReading(fs, DefaultFilename)
                              THEN "SUCCESS" ELSE "ERR_FILE_IO")
                    EXCEPT !.offered = call.offered]
    /\ UNCHANGED <<items, capacity, modified, last_filename, fs, saved, ub>>

\* cases 7, 8 and 9: load the file, sort, show, and save when the user says so.
MenuSort(op, cmp) ==
    \E yes \in BOOLEAN :
        /\ Running
        /\ IF ~CanOpenForReading(fs, DefaultFilename)
           THEN /\ call' = [Call(op, "ERR_FILE_IO") EXCEPT !.offered = call.offered]
                /\ UNCHANGED <<items, capacity, modified, last_filename, fs, ub>>
           ELSE \E L \in {Reload} :
                    IF Len(L.items) = 0
                    THEN /\ SetList(L)
                         /\ call' = Call(op, "NO_STUDENTS")
                         /\ UNCHANGED <<fs, ub>>
                    ELSE \E S \in sort_students(L, cmp) :
                         IF ~yes
                         THEN /\ SetList(S)
                              /\ call' = [Call(op, "NOT_SAVED") EXCEPT
                                              !.cmp = cmp, !.offered = TRUE]
                              /\ UNCHANGED <<fs, ub>>
                         ELSE IF Dangling
                         THEN /\ SetList(S)
                              /\ ub' = TRUE
                              /\ call' = [Call(op, "SUCCESS") EXCEPT
                                              !.cmp = cmp, !.offered = TRUE]
                              /\ UNCHANGED fs
                         ELSE \E r \in {save_to_file(S, fs, DefaultFilename, TRUE)} :
                              /\ SetList(r.list)
                              /\ fs' = r.fs
                              /\ call' = [Call(op, r.ret) EXCEPT
                                              !.cmp = cmp, !.offered = TRUE]
                              /\ UNCHANGED ub
        /\ UNCHANGED saved

Menu7 == MenuSort("menu7", "cmp_marks_asc")
Menu8 == MenuSort("menu8", "cmp_marks_desc")
Menu9 == MenuSort("menu9", "cmp_name_asc")

\* case 10: save to the current file, or to a file the user names.
Menu10 ==
    \E filename \in {DefaultFilename} \cup ShellPaths :
        /\ Running
        /\ IF Len(items) = 0
           THEN /\ call' = [Call("menu10", "NO_STUDENTS") EXCEPT
                                !.offered = call.offered]
                /\ UNCHANGED <<items, capacity, modified, last_filename, fs>>
           ELSE \E r \in {save_to_file(TheList, fs, filename, TRUE)} :
                /\ SetList(r.list)
                /\ fs' = r.fs
                /\ call' = [Call("menu10", r.ret) EXCEPT
                                !.path = filename, !.offered = TRUE]
        /\ UNCHANGED <<saved, ub>>

\* case 11: load the default file, or a file the user names.
Menu11 ==
    \E filename \in ShellPaths :
        \E r \in {load_from_file(TheList, fs, filename,
                                  [k \in 1..DataLines(fs[filename].data) |-> TRUE],
                                  TRUE)} :
            /\ Running
            /\ SetList(r.list)
            /\ ub' = r.ub
            /\ call' = [Call("menu11", r.ret) EXCEPT
                            !.path = filename, !.loaded = r.loaded,
                            !.offered = (r.ret = "ERR_FILE_IO" /\ call.offered)]
            /\ UNCHANGED <<fs, saved>>

\* case 12: quick save to the last file, or to the default one.
Menu12 ==
    /\ Running
    /\ IF Len(items) = 0
       THEN /\ call' = [Call("menu12", "NO_STUDENTS") EXCEPT
                            !.offered = call.offered]
            /\ UNCHANGED <<items, capacity, modified, last_filename, fs>>
       ELSE \E r \in {save_to_file(TheList, fs, DefaultFilename, TRUE)} :
            /\ SetList(r.list)
            /\ fs' = r.fs
            /\ call' = [Call("menu12", r.ret) EXCEPT
                            !.path = DefaultFilename, !.offered = call.offered]
    /\ UNCHANGED <<saved, ub>>

\* auto_save_prompt: with unsaved changes, ask, and save when the user says so.
auto_save_prompt(L, F, yes) ==
    IF ~L.modified \/ ~yes THEN [list |-> L, fs |-> F, ret |-> "NOT_SAVED"]
    ELSE save_to_file(L, F, IF L.last_filename # NULLPATH THEN L.last_filename
                            ELSE FILENAME, TRUE)

\* case 0: auto_save_prompt, then the end of the loop and free_student_list.
Menu0 ==
    \E yes \in BOOLEAN :
        \E r \in {auto_save_prompt(TheList, fs, yes)} :
            /\ Running
            /\ SetList(free_student_list(r.list))
            /\ fs' = r.fs
            /\ call' = [Call("menu0", r.ret) EXCEPT
                            !.offered = (modified \/ call.offered)]
            /\ UNCHANGED <<saved, ub>>

NextShell ==
    \/ Menu1 \/ Menu2 \/ Menu3 \/ MenuFromFile \/ Menu7 \/ Menu8 \/ Menu9
    \/ Menu10 \/ Menu11 \/ Menu12 \/ Menu0

SpecShell == InitShell /\ [][NextShell]_vars

(***************************************************************************)
(* Properties.  `Unchanged` says a step leaves the StudentList struct as   *)
(* it was.                                                                 *)
(***************************************************************************)
Unchanged ==
    /\ items' = items
    /\ capacity' = capacity
    /\ modified' = modified
    /\ last_filename' = last_filename

HasRoll(its, roll) == \E i \in 1..Len(its) : its[i].roll = roll

DistinctRolls(its) ==
    \A i, j \in 1..Len(its) : i # j => its[i].roll # its[j].roll

\* C1: after any sequence of add, modify, remove, sort and load calls from the
\* empty roster, no two records of the roster have the same roll.
C1_UniqueRolls == DistinctRolls(items)

\* C1 witness: a modify has succeeded on a roster of two records.
C1_Witness ==
    /\ call.op = "modify"
    /\ call.ret = "SUCCESS"
    /\ Len(items) = 2

\* C2: add_student of a record whose roll is already in the roster returns
\* ERR_DUPLICATE and leaves the roster as it was: same records in the same
\* order, same modified flag.
C2_DuplicateAddRejected ==
    [][(call'.op = "add" /\ HasRoll(items, call'.s.roll))
           => (call'.ret = "ERR_DUPLICATE" /\ Unchanged)]_vars

\* C2 witness: an add was refused as a duplicate, the flag being clear.
C2_Witness ==
    /\ call.op = "add"
    /\ call.ret = "ERR_DUPLICATE"
    /\ HasRoll(items, call.s.roll)
    /\ ~modified

ValidStudent(s) == s.roll > 0 /\ s.marks >= 0 /\ s.marks <= 100

AllValid(its) == \A i \in 1..Len(its) : ValidStudent(its[i])

NoPipeNoNewline(its) ==
    \A i \in 1..Len(its) : \A k \in 1..Len(its[i].name) :
        its[i].name[k] \notin {"|", "\n"}

\* The names are strings (not NULL) that trim_inplace leaves as they are.
NamesTrimmed(its) ==
    \A i \in 1..Len(its) :
        its[i].name # NULL /\ trim_inplace(its[i].name) = its[i].name

LineBody(buffer) ==
    IF buffer # <<>> /\ buffer[Len(buffer)] = "\n"
    THEN SubSeq(buffer, 1, Len(buffer) - 1) ELSE buffer

PipeCount(line) == Cardinality({k \in 1..Len(line) : line[k] = "|"})

\* The field is numeric: after white space and a sign, it starts with a digit
\* (what follows the number is tolerated).
IsNumeric(field) ==
    LET i == SkipSpace(field, 1)
        j == IF i <= Len(field) /\ field[i] \in {"+", "-"} THEN i + 1 ELSE i
    IN  j <= Len(field) /\ isdigit(field[j])

RollField(line) == SubSeq(line, 1, strchr(line, 1, "|") - 1)

MarksField(line) ==
    SubSeq(line, strchr(line, 1, "|") + 1,
           strchr(line, strchr(line, 1, "|") + 1, "|") - 1)

\* A data line: neither empty nor a comment.
IsDataLine(buffer) == buffer[1] # "#" /\ buffer[1] # "\n"

\* A well-formed data line: three fields, a numeric roll and numeric marks,
\* both in range.
WellFormed(buffer) ==
    /\ IsDataLine(buffer)
    /\ PipeCount(LineBody(buffer)) = 2
    /\ IsNumeric(RollField(LineBody(buffer)))
    /\ IsNumeric(MarksField(LineBody(buffer)))
    /\ ValidStudent(Student(strtol(RollField(LineBody(buffer))), <<>>,
                            strtol(MarksField(LineBody(buffer)))))

\* N - D for the lines of a file: the well-formed lines whose roll no earlier
\* well-formed line has.
ExpectedCount(buffers) ==
    Cardinality(
        {k \in 1..Len(buffers) :
            /\ WellFormed(buffers[k])
            /\ \A j \in 1..(k - 1) :
                   WellFormed(buffers[j]) =>
                       strtol(RollField(LineBody(buffers[j])))
                           # strtol(RollField(LineBody(buffers[k])))})

\* C4: a successful load reports N - D records and leaves a roster of N - D
\* records, N being the well-formed data lines of the file and D those of them
\* that repeat an earlier roll; a line with a wrong field count or with a
\* non-numeric roll or marks field contributes no record.
C4_LoadCount_AsClaimed ==
    (call.op = "load" /\ call.ret = "SUCCESS")
        => /\ call.loaded = ExpectedCount(FgetsAll(fs[call.path].data))
           /\ Len(items) = ExpectedCount(FgetsAll(fs[call.path].data))

C6_ModifyAtomic_AsClaimed ==
    [][(call'.op = "modify" /\ call'.index < Len(items))
           => \/ items'[call'.index + 1] = call'.s
              \/ items'[call'.index + 1] = items[call'.index + 1]]_vars

\* C7: modify_at with a new roll that differs from the record's own and is the
\* roll of another record returns ERR_DUPLICATE and changes nothing; with a
\* new roll equal to the record's own it does not return ERR_DUPLICATE.
C7_ModifyDuplicate ==
    [][(call'.op = "modify" /\ call'.index < Len(items))
           => /\ (/\ call'.s.roll # items[call'.index + 1].roll
                  /\ HasRoll(items, call'.s.roll))
                      => (call'.ret = "ERR_DUPLICATE" /\ Unchanged)
              /\ call'.s.roll = items[call'.index + 1].roll
                      => call'.ret # "ERR_DUPLICATE"]_vars

\* C7 witness: a modify was refused for the roll of the other record.
C7_Witness ==
    /\ call.op = "modify"
    /\ call.ret = "ERR_DUPLICATE"
    /\ call.index < Len(items)
    /\ call.s.roll # items[call.index + 1].roll
    /\ HasRoll(items, call.s.roll)

\* C8: every record of the roster has roll > 0 and 0 <= marks <= 100; add and
\* modify_at never place a record that has not.
C8_AllRecordsValid_AsClaimed == AllValid(items)

\* C9, as claimed: every successful add, remove_at and modify_at, and every
\* sort, ends with the modified flag set.
C9_SetsModified_AsClaimed ==
    [][(\/ call'.op \in {"add", "remove", "modify"} /\ call'.ret = "SUCCESS"
        \/ call'.op = "sort")
           => modified']_vars

\* C9, amended: every successful add, remove_at and modify_at, and every sort
\* of two or more records (also one that leaves them in the order they were
\* in), ends with the modified flag set; a sort of fewer than two records
\* leaves the flag as it was.
C9_SetsModified ==
    [][/\ (\/ call'.op \in {"add", "remove", "modify"} /\ call'.ret = "SUCCESS"
           \/ call'.op = "sort" /\ Len(items) >= 2)
              => modified'
       /\ (call'.op = "sort" /\ Len(items) < 2) => Unchanged]_vars

\* C9 witness: a sort of two records of a roster that was not modified left
\* them in the order they were in, and set the flag.
C9_Witness ==
    /\ call.op = "sort"
    /\ call.kept
    /\ ~call.was_modified
    /\ Len(items) = 2
    /\ modified

\* C10, as claimed: the modified flag goes from true to false only in a
\* successful save or a successful load.
C10_ClearedOnly_AsClaimed ==
    [][(modified /\ ~modified')
           => (call'.op \in {"save", "load"} /\ call'.ret = "SUCCESS")]_vars

\* C10, amended: the modified flag goes from true to false only in a
\* successful save, a successful load, or a reset of the roster by
\* free_student_list; a failed save and a failed load do not clear it.
C10_ClearedOnly ==
    [][(modified /\ ~modified')
           => \/ call'.op \in {"save", "load"} /\ call'.ret = "SUCCESS"
              \/ call'.op = "free"]_vars

\* C10 witness: free_student_list has cleared the flag of a modified roster.
C10_Witness ==
    /\ call.op = "free"
    /\ call.was_modified
    /\ ~modified

\* The step is a successful save_to_file or load_from_file.
SyncStep == call'.op \in {"save", "load"} /\ call'.ret = "SUCCESS"

\* C11: whenever modified is false, the records in memory are those of the
\* most recent successful save or load (none, if there has been neither).
\* As a property of steps: a step that ends with the flag clear is a
\* successful save or load, or it starts with the flag clear and leaves the
\* records as they were.
C11_CleanMeansSynced_AsClaimed ==
    [][~modified' => (SyncStep \/ (~modified /\ items' = items))]_vars

\* No two records compare equal under the comparator.
NoTies(its, cmp) ==
    \A i, j \in 1..Len(its) : i # j => Compare(cmp, its[i], its[j]) # 0

Reverse(its) == [i \in 1..Len(its) |-> its[Len(its) + 1 - i]]

DistinctMarks(its) ==
    \A i, j \in 1..Len(its) : i # j => its[i].marks # its[j].marks

IsPermutation(a, b) ==
    /\ Len(a) = Len(b)
    /\ \E p \in Permutations(1..Len(a)) : \A i \in 1..Len(a) : b[i] = a[p[i]]

\* Adjacent records are in order: marks non-decreasing, marks non-increasing,
\* or names in byte-wise lexicographic order.
InOrder(its, cmp) ==
    \A i \in 1..(Len(its) - 1) :
        CASE cmp = "cmp_marks_asc" -> its[i].marks <= its[i + 1].marks
          [] cmp = "cmp_marks_desc" -> its[i].marks >= its[i + 1].marks
          [] cmp = "cmp_name_asc" -> strcmp(its[i].name, its[i + 1].name) <= 0

\* C13: for a roster whose marks are pairwise distinct, the records as
\* sort(marks ascending) leaves them, reversed, are the records as
\* sort(marks descending) leaves them.
C13_SortComplement_AsClaimed ==
    [][(call'.op = "sort" /\ call'.cmp = "cmp_marks_asc" /\ DistinctMarks(items))
           => /\ ~ub'
              /\ ~CompareUB(items, "cmp_marks_desc")
              /\ \A L \in sort_students(TheList, "cmp_marks_desc") :
                     L.items = Reverse(items')]_vars

\* C14: after a sort the roster is a permutation of the roster before it and
\* every adjacent pair is in order under the comparator, whatever marks the
\* records hold.
C14_SortOrders_AsClaimed ==
    [][call'.op = "sort"
           => /\ ~ub'
              /\ IsPermutation(items, items')
              /\ InOrder(items', call'.cmp)]_vars

RECURSIVE SumMarks(_, _)
SumMarks(its, n) == IF n = 0 THEN 0 ELSE SumMarks(its, n - 1) + its[n].marks

MarksOf(its) == {its[i].marks : i \in 1..Len(its)}

PassCount(its) == Cardinality({i \in 1..Len(its) : its[i].marks >= 40})

\* v is x / n to the nearest integer.
Nearest(v, x, n) == 2 * (v * n - x) <= n /\ 2 * (x - v * n) <= n

\* The roster of the example.
ExampleRoster ==
    <<Student(1, <<"A">>, 90), Student(2, <<"B">>, 30), Student(3, <<"C">>, 40)>>

\* C15: statistics on an empty roster gives the no-data result; on a roster
\* that is not empty it reports count = size, the least and the greatest
\* marks, the number of records with marks >= 40 as pass count, the others as
\* fail count, the mean to two decimals and the pass rate in percent to one.
\* For the roster of the example this is 3, 53.33, 90, 30, 2, 1 and 66.7.
C15_Statistics_AsClaimed ==
    call.op = "statistics" =>
        /\ call.stats.nodata = (Len(items) = 0)
        /\ Len(items) > 0 =>
               /\ call.stats.count = Len(items)
               /\ call.stats.min \in MarksOf(items)
               /\ \A m \in MarksOf(items) : call.stats.min <= m
               /\ call.stats.max \in MarksOf(items)
               /\ \A m \in MarksOf(items) : m <= call.stats.max
               /\ call.stats.pass = PassCount(items)
               /\ call.stats.fail = Len(items) - PassCount(items)
               /\ Nearest(call.stats.avg, 100 * SumMarks(items, Len(items)),
                          Len(items))
               /\ Nearest(call.stats.rate, 1000 * PassCount(items), Len(items))
        /\ items = ExampleRoster =>
               call.stats = [nodata |-> FALSE, count |-> 3, avg |-> 5333,
                             max |-> 90, min |-> 30, pass |-> 2, rate |-> 667,
                             fail |-> 1]

\* The text of a line after its last blank, without the newline.
LastWord(buffer) ==
    LET line == LineBody(buffer)
        blanks == {k \in 1..Len(line) : line[k] = " "}
        last == IF blanks = {} THEN 0
                ELSE CHOOSE k \in blanks : \A j \in blanks : j <= k
    IN  SubSeq(line, last + 1, Len(line))

\* The line roll|marks|name of a record, an absent name being an empty field.
RecordLine(s) ==
    FormatInt(s.roll) \o <<"|">> \o FormatInt(s.marks) \o <<"|">>
        \o (IF s.name = NULL THEN <<>> ELSE s.name) \o <<"\n">>

\* The file is three header lines, the third ending with the number of
\* records, and then the line of each record, in order.
IsSavedRoster(data, its) ==
    LET lines == FgetsAll(data)
    IN  /\ Len(lines) = 3 + Len(its)
        /\ \A k \in 1..3 : lines[k][1] = "#" /\ lines[k][Len(lines[k])] = "\n"
        /\ LastWord(lines[3]) = FormatNat(Len(its))
        /\ \A i \in 1..Len(its) : lines[3 + i] = RecordLine(its[i])

\* C16: a successful save writes the three header lines and one line
\* roll|marks|name per record in roster order, leaves the records in memory
\* as they were, sets last_filename to the path and clears modified.
C16_SaveWrites ==
    [][(call'.op = "save" /\ call'.ret = "SUCCESS")
           => /\ IsSavedRoster(fs'[call'.path].data, items)
              /\ fs'[call'.path].exists
              /\ items' = items
              /\ last_filename' = call'.path
              /\ ~modified']_vars

\* C16 witness: a modified roster of two records has been saved.
C16_Witness ==
    /\ call.op = "save"
    /\ call.ret = "SUCCESS"
    /\ call.was_modified
    /\ Len(items) = 2
    /\ IsSavedRoster(fs[call.path].data, items)

\* C17: a save whose file cannot be opened for writing, and a load whose file
\* cannot be opened for reading, return ERR_FILE_IO and leave the roster as
\* it was: records, order, modified flag and last_filename.
C17_OpenFailure ==
    [][/\ (call'.op = "save" /\ ~CanOpenForWriting(fs, call'.path))
              => (call'.ret = "ERR_FILE_IO" /\ Unchanged)
       /\ (call'.op = "load" /\ ~CanOpenForReading(fs, call'.path))
              => (call'.ret = "ERR_FILE_IO" /\ Unchanged)]_vars

\* C17 witness: a load could not open its file and the two unsaved records
\* are still there.
C17_Witness ==
    /\ call.op = "load"
    /\ call.ret = "ERR_FILE_IO"
    /\ ~CanOpenForReading(fs, call.path)
    /\ call.was_modified
    /\ modified
    /\ Len(items) = 2

\* The text of a data line after its second pipe.
NameField(line) ==
    SubSeq(line, strchr(line, strchr(line, 1, "|") + 1, "|") + 1, Len(line))

\* The record a data line stands for.
RecordOf(buffer) ==
    Student(strtol(RollField(LineBody(buffer))),
            trim_inplace(NameField(LineBody(buffer))),
            strtol(MarksField(LineBody(buffer))))

\* A valid data line: three fields or more, and a record in range.
HasRecord(buffer) ==
    /\ IsDataLine(buffer)
    /\ PipeCount(LineBody(buffer)) >= 2
    /\ ValidStudent(RecordOf(buffer))

\* The records of the valid data lines of a file.
RecordsIn(data) ==
    {RecordOf(FgetsAll(data)[k]) :
         k \in {j \in 1..Len(FgetsAll(data)) : HasRecord(FgetsAll(data)[j])}}

\* C18: once load has opened the file, the roster holds only records read
\* from the file, whatever it held before, and none when the file is empty or
\* has no valid data line.  A load leaves the file as it is, so the state
\* after the call shows the file that was read.
C18_LoadDiscards ==
    (call.op = "load" /\ CanOpenForReading(fs, call.path))
        => /\ \A i \in 1..Len(items) :
                  items[i] \in RecordsIn(fs[call.path].data)
           /\ RecordsIn(fs[call.path].data) = {} => items = <<>>

\* C18 witness: a roster with unsaved changes has been replaced by the load
\* of a file that is not empty and has no valid data line.
C18_Witness ==
    /\ call.op = "load"
    /\ call.ret = "SUCCESS"
    /\ call.was_modified
    /\ fs[call.path].data # <<>>
    /\ RecordsIn(fs[call.path].data) = {}
    /\ items = <<>>

\* The valid data lines of a file that carry the roll r, by line number.
LinesWithRoll(data, r) ==
    {k \in 1..Len(FgetsAll(data)) :
         /\ HasRecord(FgetsAll(data)[k])
         /\ RecordOf(FgetsAll(data)[k]).roll = r}

\* The record of the first valid data line of a file that carries the roll r.
FirstWithRoll(data, r) ==
    RecordOf(FgetsAll(data)[
        CHOOSE k \in LinesWithRoll(data, r) :
            \A m \in LinesWithRoll(data, r) : k <= m])

\* Some roll is carried by two valid data lines of the file or more.
RepeatsRoll(data) ==
    \E r \in {s.roll : s \in RecordsIn(data)} :
        Cardinality(LinesWithRoll(data, r)) > 1

\* C19: a load that opens its file succeeds, and for every roll carried by
\* valid data lines the roster holds the record of the first such line and
\* no other record of that roll.
C19_FirstRollWins ==
    (call.op = "load" /\ CanOpenForReading(fs, call.path))
        => /\ call.ret = "SUCCESS"
           /\ \A r \in {s.roll : s \in RecordsIn(fs[call.path].data)} :
                  \E i \in 1..Len(items) :
                      /\ items[i] = FirstWithRoll(fs[call.path].data, r)
                      /\ \A j \in 1..Len(items) :
                             items[j].roll = r => j = i

\* C19 witness: a file with two valid lines of one roll, and differing
\* records, has been loaded.
C19_Witness ==
    /\ call.op = "load"
    /\ call.ret = "SUCCESS"
    /\ RepeatsRoll(fs[call.path].data)
    /\ Cardinality(RecordsIn(fs[call.path].data)) > Len(items)
    /\ Len(items) = 2

\* C20: after a load that opened its file and returned SUCCESS, also one
\* that accepted no record, last_filename is the path given, modified is
\* false and the count reported is the size of the roster.
C20_LoadCompletes ==
    (call.op = "load" /\ call.ret = "SUCCESS")
        => /\ last_filename = call.path
           /\ ~modified
           /\ call.loaded = Len(items)

\* C20 witness: a roster with unsaved changes has loaded an empty file, and
\* no record was accepted.
C20_Witness ==
    /\ call.op = "load"
    /\ call.ret = "SUCCESS"
    /\ call.was_modified
    /\ fs[call.path].data = <<>>
    /\ call.loaded = 0
    /\ last_filename = call.path
    /\ ~modified

\* C21: an allocation failure while load constructs a record makes the load
\* fail; so a load that returns SUCCESS has lost no line to such a failure,
\* and holds a record for every roll carried by a valid data line of the file.
C21_LoadFailsOnAllocation_AsClaimed ==
    (call.op = "load" /\ call.ret = "SUCCESS")
        => \A s \in RecordsIn(fs[call.path].data) : HasRoll(items, s.roll)

\* The valid data lines of a file whose roll no earlier valid line carries,
\* by line number.
AcceptedLines(data) ==
    {k \in 1..Len(FgetsAll(data)) :
         /\ HasRecord(FgetsAll(data)[k])
         /\ \A j \in 1..(k - 1) :
                HasRecord(FgetsAll(data)[j]) =>
                    RecordOf(FgetsAll(data)[j]).roll
                        # RecordOf(FgetsAll(data)[k]).roll}

\* The n-th smallest element of a set of numbers.
NthOf(S, n) == CHOOSE k \in S : Cardinality({m \in S : m <= k}) = n

\* C22: a load whose file opens succeeds whatever its lines are, and the
\* roster is then the records of the accepted lines, in file order: roll and
\* marks are the leading number of their field and the name is trimmed;
\* empty lines, comments, lines with fewer than two pipes and lines whose
\* values are out of range give no record.
C22_LoadTolerant ==
    (call.op = "load" /\ CanOpenForReading(fs, call.path))
        => /\ call.ret = "SUCCESS"
           /\ Len(items) = Cardinality(AcceptedLines(fs[call.path].data))
           /\ \A i \in 1..Len(items) :
                  items[i] =
                      RecordOf(FgetsAll(fs[call.path].data)[
                          NthOf(AcceptedLines(fs[call.path].data), i)])

\* C22 witness: a file of three lines has been loaded, its second line a bad
\* one without two pipes or with a value out of range, its first and third
\* lines accepted; one of them has characters after its numbers.
C22_Witness ==
    /\ call.op = "load"
    /\ call.ret = "SUCCESS"
    /\ AcceptedLines(fs[call.path].data) = {1, 3}
    /\ Len(FgetsAll(fs[call.path].data)) = 3
    /\ IsDataLine(FgetsAll(fs[call.path].data)[2])
    /\ Len(items) = 2
    /\ items[1] = Student(2, <<"b">>, 0)
    /\ FgetsAll(fs[call.path].data)[1] = Line_garbage

\* C23: add of a record whose roll is not in the roster succeeds: the record
\* is stored at the last position, inside the array, the size grows by one
\* and the earlier records stay as they were, in their order.
C23_AddAppends_AsClaimed ==
    [][(call'.op = "add" /\ ~HasRoll(items, call'.s.roll))
           => /\ call'.ret = "SUCCESS"
              /\ ~ub'
              /\ Len(items') = Len(items) + 1
              /\ items'[Len(items')] = call'.s
              /\ SubSeq(items', 1, Len(items)) = items]_vars

\* C24: when the array is full and the realloc of ensure_capacity fails, add
\* returns ERR_MEMORY; and an add that returns ERR_MEMORY was made on a full
\* array and leaves the roster as it was: size, records, order and modified.
C24_AddOutOfMemory ==
    [][call'.op = "add"
           => /\ (Len(items) >= capacity /\ ~HasRoll(items, call'.s.roll))
                     => add_student(TheList, call'.s, FALSE)
                            = Result(TheList, "ERR_MEMORY")
              /\ call'.ret = "ERR_MEMORY"
                     => (Unchanged /\ Len(items) >= capacity)]_vars

\* C24 witness: the roster holds as many records as the array has room for,
\* and the add of one more has returned ERR_MEMORY.
C24_Witness ==
    /\ call.op = "add"
    /\ call.ret = "ERR_MEMORY"
    /\ ~HasRoll(items, call.s.roll)
    /\ Len(items) = INITIAL_CAPACITY
    /\ capacity = INITIAL_CAPACITY
    /\ ~ub

\* C25: remove_student_by_index and modify_student called with an index at or
\* beyond the size of the roster, any index when the roster is empty, return
\* ERR_INVALID_INPUT and leave records, order and modified as they were.
C25_IndexOutOfBounds ==
    [][(call'.op \in {"remove", "modify"} /\ call'.index >= Len(items))
           => (call'.ret = "ERR_INVALID_INPUT" /\ Unchanged)]_vars

\* C25 witness: modify_student has been called with index = size on a saved
\* roster of two records, and has returned ERR_INVALID_INPUT.
C25_Witness ==
    /\ call.op = "modify"
    /\ call.ret = "ERR_INVALID_INPUT"
    /\ call.index = Len(items)
    /\ Len(items) = 2
    /\ ~call.was_modified
    /\ ~modified

\* C26: every record of the roster has a name of 1 to MAX_NAME_LENGTH
\* characters; a record made from an empty or absent name is named "Unnamed".
C26_NamesInRange_AsClaimed ==
    \A i \in 1..Len(items) :
        /\ items[i].name # NULL
        /\ Len(items[i].name) >= 1
        /\ Len(items[i].name) <= MAX_NAME_LENGTH

\* C27: find_index_by_roll returns the position of the record whose roll is
\* the one asked for, and -1 when the roster has none; search_by_roll returns
\* that record, or no record; neither changes records, order, modified or
\* last_filename.
C27_FindByRoll ==
    [][/\ call'.op = "find"
           => /\ Unchanged
              /\ HasRoll(items, call'.roll)
                     => /\ call'.index \in 0..(Len(items) - 1)
                        /\ items[call'.index + 1].roll = call'.roll
              /\ ~HasRoll(items, call'.roll) => call'.index = -1
       /\ call'.op = "search"
           => /\ Unchanged
              /\ HasRoll(items, call'.roll)
                     => /\ call'.s.roll = call'.roll
                        /\ \E i \in 1..Len(items) : items[i] = call'.s
              /\ ~HasRoll(items, call'.roll) => call'.s = NoStudent]_vars

\* C27 witness: the roll of the first of three records has been looked for
\* and position 0 returned.
C27_Witness ==
    /\ call.op = "find"
    /\ Len(items) = 3
    /\ items[1].roll = call.roll
    /\ call.index = 0
    /\ modified = call.was_modified

\* C28: when option 1 has added a student and saved the roster, the data
\* file holds every record it held before, and the new one.
C28_AddKeepsFile_AsClaimed ==
    [][(call'.op = "menu1" /\ call'.ret = "SUCCESS")
           => /\ RecordsIn(fs[call'.path].data)
                     \subseteq RecordsIn(fs'[call'.path].data)
              /\ call'.s \in RecordsIn(fs'[call'.path].data)]_vars

\* The roster a reload is about to put in the place of the current one: the
\* file of cases 2, 3, 7, 8 and 9, or the file named in case 11.
ReloadedFrom(op, path) ==
    IF op \in {"menu2", "menu3", "menu7", "menu8", "menu9"}
    THEN Reload.items
    ELSE IF op = "menu11" /\ CanOpenForReading(fs, path)
    THEN load_from_file(TheList, fs, path,
                        [k \in 1..DataLines(fs[path].data) |-> TRUE], TRUE).list.items
    ELSE items

\* C29: while the roster has unsaved changes, no menu option throws records
\* of it away (the reload of options 2, 3, 7, 8, 9 and 11, the exit of
\* option 0) unless the user has been asked to save the roster as it is.
C29_NoSilentDiscard_AsClaimed ==
    [][(/\ modified
        /\ call'.op \in {"menu2", "menu3", "menu7", "menu8", "menu9",
                         "menu11", "menu0"}
        /\ \E i \in 1..Len(items) :
               \A j \in 1..Len(ReloadedFrom(call'.op, call'.path)) :
                   ReloadedFrom(call'.op, call'.path)[j] # items[i])
           => (call.offered \/ (call'.op = "menu0" /\ call'.offered))]_vars

\* C30: in every state reached from init_student_list, adds after a
\* free_student_list included, size <= capacity, and no add has stored a
\* record outside the array.
C30_SizeWithinCapacity_AsClaimed ==
    /\ Len(items) <= capacity
    /\ call.op = "add" => ~ub

====
